---- MODULE Spec2Model ----
(***************************************************************************)
(* The output-channel subsystem: OutputChannelManager (a registry of named *)
(* OutputChannel objects with one selected channel) and OutputChannel (a   *)
(* bounded buffer of text lines with a visibility and a scroll-lock flag). *)
(*                                                                         *)
(* Channel objects live in `heap` and are referred to by their index, so   *)
(* that two objects with the same name are told apart.  Every public       *)
(* method is one action; the listeners it triggers synchronously are part  *)
(* of that action.  The operators in lower case take the program state as  *)
(* a record `s` and return the state after the method of that name.        *)
(***************************************************************************)
EXTENDS Integers, Sequences, FiniteSets, TLC

VARIABLES
    channels,                   \* Map<string, OutputChannel>, as the ids in insertion order
    heap,                       \* every OutputChannel constructed so far, by id
    selectedChannelValue,       \* id of the selected channel, or NoChannel
    toDisposeOnChannelDeletion, \* name -> ids whose per-channel bundle is registered
    lockedChannels,             \* Set<string> of names to lock on creation
    managerDisposed,            \* the manager's toDispose collection was disposed
    storage,                    \* the persisted 'lockedChannels' value
    onStartPc,                  \* position of the asynchronous onStart
    pending,                    \* what the getData() promise of onStart resolves to
    maxChannelHistory,          \* preferences['output.maxChannelHistory']
    returned,                   \* the array handed out by the last getLines()
    fired,                      \* notifications delivered during the last call
    call,                       \* the last call: its name, arguments, result
    scenario,                   \* progress along the one/two life-cycle scenario
    calls,                      \* calls made on the channel under test
    texts                       \* the texts the clients of this run write

vars == <<channels, heap, selectedChannelValue, toDisposeOnChannelDeletion,
          lockedChannels, managerDisposed, storage, onStartPc, pending,
          maxChannelHistory, returned, fired, call, scenario, calls, texts>>

(***************************************************************************)
(* Bounds of the model.                                                    *)
(***************************************************************************)
MaxChannels == 3        \* OutputChannel objects constructed in one run
MaxHistory == 3         \* largest value of output.maxChannelHistory
MaxCalls == 4           \* calls recorded on the channel under test
MaxRecreated == 2       \* OutputChannel objects constructed where deleted ones are written
MaxStaleWrites == 2     \* append, appendLine and clear calls on deleted channels
MaxHeld == 2            \* OutputChannel objects constructed where clients dispose them

Names == {"one", "two", "three"}
TwoNames == {"one", "two"}
NoChannel == 0
NONE == "<no channels>"
Alphabets == {{"", "a"}, {"a", "b", "c", "d"}, {"Hel", "lo", "!"}}

Min(a, b) == IF a < b THEN a ELSE b
First(seq) == IF seq = <<>> THEN NoChannel ELSE seq[1]
Drop(seq, n) == SubSeq(seq, Min(n, Len(seq)) + 1, Len(seq))
Range(seq) == {seq[i] : i \in DOMAIN seq}

(***************************************************************************)
(* OutputChannel                                                           *)
(***************************************************************************)
\* currentLine is a sequence of at most one string: <<>> is undefined.
OutputChannel(name) ==
    [name |-> name, lines |-> <<>>, currentLine |-> <<>>,
     visible |-> TRUE, locked |-> FALSE, disposed |-> FALSE]

\* The program state as one record, at the start of a call.
State ==
    [channels |-> channels, heap |-> heap,
     selectedChannelValue |-> selectedChannelValue,
     toDisposeOnChannelDeletion |-> toDisposeOnChannelDeletion,
     lockedChannels |-> lockedChannels, managerDisposed |-> managerDisposed,
     maxChannelHistory |-> maxChannelHistory,
     fired |-> <<>>, ret |-> NoChannel]

\* A listener other than the manager's own is notified: what it is told and
\* what it sees of the manager (selectedChannel, getChannels() and
\* getVisibleChannels()).  The manager subscribes to an emitter before
\* anybody else can, and listeners run in the order they subscribed, so the
\* manager's listener runs first and the others see the state it leaves.
Notify(s, emitter, payload) ==
    [s EXCEPT !.fired = Append(@, [emitter |-> emitter, payload |-> payload,
                                   selected |-> s.selectedChannelValue,
                                   channels |-> s.channels,
                                   visible |-> SelectSeq(s.channels,
                                       LAMBDA c : s.heap[c].visible)])]

\* fire() of one of the manager's emitters; nobody listens once disposed.
ManagerFire(s, emitter, payload) ==
    IF s.managerDisposed THEN s ELSE Notify(s, emitter, payload)

\* fire() of one of a channel's emitters; nobody listens once disposed.
ChannelFire(s, c, emitter, payload) ==
    IF s.heap[c].disposed THEN s ELSE Notify(s, emitter, payload)

\* Whether the manager's listeners on channel c are registered.
Listening(s, c) ==
    /\ ~s.heap[c].disposed
    /\ c \in s.toDisposeOnChannelDeletion[s.heap[c].name]

getChannels(s) == s.channels

\* Mutant of getVisibleChannels: the filter on isVisible is left out.
getVisibleChannelsUnfiltered(s) == getChannels(s)

getVisibleChannels(s) == SelectSeq(getChannels(s), LAMBDA c : s.heap[c].visible)

\* channels.get(name)
Existing(s, name) ==
    IF \E i \in DOMAIN s.channels : s.heap[s.channels[i]].name = name
    THEN s.channels[CHOOSE i \in DOMAIN s.channels : s.heap[s.channels[i]].name = name]
    ELSE NoChannel

set_selectedChannel(s, channel) ==
    LET s1 == [s EXCEPT !.selectedChannelValue = channel]
        s2 == ManagerFire(s1, "selectedChannel", [none |-> TRUE])
    IN  ManagerFire(s2, "listOrSelection", [none |-> TRUE])

\* Mutant of toggleLocked: the flag is set, not negated.
toggleLockedSets(s, c) ==
    LET s1 == [s EXCEPT !.heap[c].locked = TRUE]
        s2 == IF Listening(s1, c)
              THEN ManagerFire(s1, "channelLocked", [channel |-> c])
              ELSE s1
    IN  ChannelFire(s2, c, "lockedChange",
                    [channel |-> c, scrollLock |-> s1.heap[c].locked])

toggleLocked(s, c) ==
    LET s1 == [s EXCEPT !.heap[c].locked = ~@]
        s2 == IF Listening(s1, c)
              THEN ManagerFire(s1, "channelLocked", [channel |-> c])
              ELSE s1
    IN  ChannelFire(s2, c, "lockedChange",
                    [channel |-> c, scrollLock |-> s1.heap[c].locked])

\* toggleLocked() as registerListener calls it, on a channel the manager has
\* just subscribed to: no client has subscribed to the channel after the
\* manager yet, so the manager's re-broadcast is all that is delivered.
toggleLockedOnCreation(s, c) ==
    LET s1 == [s EXCEPT !.heap[c].locked = ~@]
    IN  IF Listening(s1, c)
        THEN ManagerFire(s1, "channelLocked", [channel |-> c])
        ELSE s1

\* Mutant of onVisibilityChange: the selection falls back to the last
\* visible channel of the registry, not to the first.
onVisibilityChangeLastVisible(s, c, visible) ==
    IF visible THEN set_selectedChannel(s, c)
    ELSE IF c = s.selectedChannelValue
         THEN set_selectedChannel(s,
                 IF getVisibleChannels(s) = <<>> THEN NoChannel
                 ELSE getVisibleChannels(s)[Len(getVisibleChannels(s))])
         ELSE s

\* Mutant of onVisibilityChange: a channel that is hidden stays selected.
onVisibilityChangeShowOnly(s, c, visible) ==
    IF visible THEN set_selectedChannel(s, c) ELSE s

onVisibilityChange(s, c, visible) ==
    IF visible THEN set_selectedChannel(s, c)
    ELSE IF c = s.selectedChannelValue
         THEN set_selectedChannel(s, First(getVisibleChannels(s)))
         ELSE s

setVisibility(s, c, visible) ==
    LET s1 == [s EXCEPT !.heap[c].visible = visible]
        s2 == IF Listening(s1, c) THEN onVisibilityChange(s1, c, visible) ELSE s1
    IN  ChannelFire(s2, c, "visibilityChange", [channel |-> c, visible |-> visible])

append(s, c, value) ==
    LET s1 == IF s.heap[c].currentLine = <<>>
              THEN [s EXCEPT !.heap[c].currentLine = <<value>>]
              ELSE [s EXCEPT !.heap[c].currentLine = <<@[1] \o value>>]
    IN  ChannelFire(s1, c, "contentChange", [channel |-> c])

\* Mutant of appendLine: the history is cut at its end, not at its start.
appendLineKeepsOldest(s, c, line) ==
    LET ch == s.heap[c]
        pushed == IF ch.currentLine # <<>>
                  THEN Append(ch.lines, ch.currentLine[1] \o line)
                  ELSE Append(ch.lines, line)
        max == s.maxChannelHistory
        s1 == [s EXCEPT !.heap[c].currentLine = <<>>,
                        !.heap[c].lines = IF Len(pushed) > max
                                          THEN SubSeq(pushed, 1, max)
                                          ELSE pushed]
    IN  ChannelFire(s1, c, "contentChange", [channel |-> c])

appendLine(s, c, line) ==
    LET ch == s.heap[c]
        pushed == IF ch.currentLine # <<>>
                  THEN Append(ch.lines, ch.currentLine[1] \o line)
                  ELSE Append(ch.lines, line)
        max == s.maxChannelHistory
        s1 == [s EXCEPT !.heap[c].currentLine = <<>>,
                        !.heap[c].lines = IF Len(pushed) > max
                                          THEN Drop(pushed, Len(pushed) - max)
                                          ELSE pushed]
    IN  ChannelFire(s1, c, "contentChange", [channel |-> c])

clear(s, c) ==
    LET s1 == [s EXCEPT !.heap[c].lines = <<>>, !.heap[c].currentLine = <<>>]
    IN  ChannelFire(s1, c, "contentChange", [channel |-> c])

\* Mutant of getLines: currentLine is tested for truthiness, so that an empty
\* in-progress line counts as none.
getLinesTruthy(s, c) ==
    IF s.heap[c].currentLine # <<>> /\ s.heap[c].currentLine # <<"">>
    THEN [alias |-> FALSE, copy |-> s.heap[c].lines \o s.heap[c].currentLine, of |-> c]
    ELSE [alias |-> TRUE, copy |-> <<>>, of |-> c]

\* The array getLines() hands out: the channel's own array (alias), or a new
\* array holding `copy`.
getLines(s, c) ==
    IF s.heap[c].currentLine # <<>>
    THEN [alias |-> FALSE, copy |-> s.heap[c].lines \o s.heap[c].currentLine, of |-> c]
    ELSE [alias |-> TRUE, copy |-> <<>>, of |-> c]

\* OutputChannel.dispose, called by a client: the channel's three emitters
\* lose their listeners, the manager's among them, and the channel takes
\* itself out of the collection it was pushed to.  The registry and the
\* selection are not told.
disposeChannel(s, c) ==
    [s EXCEPT !.heap[c].disposed = TRUE,
              !.toDisposeOnChannelDeletion[s.heap[c].name] = @ \ {c}]

(***************************************************************************)
(* OutputChannelManager                                                    *)
(***************************************************************************)
\* Mutant of registerListener: the new channel is selected unconditionally.
registerListenerAlwaysSelects(s, c) ==
    LET name == s.heap[c].name
        s1 == set_selectedChannel(s, c)
        s2 == [s1 EXCEPT !.toDisposeOnChannelDeletion[name] = @ \cup {c}]
    IN  IF name \in s2.lockedChannels /\ ~s2.heap[c].locked
        THEN toggleLockedOnCreation(s2, c) ELSE s2

\* Mutant of registerListener: a recorded name is restored once and forgotten.
registerListenerRestoresOnce(s, c) ==
    LET name == s.heap[c].name
        s1 == IF s.selectedChannelValue = NoChannel
              THEN set_selectedChannel(s, c) ELSE s
        s2 == [s1 EXCEPT !.toDisposeOnChannelDeletion[name] = @ \cup {c}]
    IN  IF name \in s2.lockedChannels /\ ~s2.heap[c].locked
        THEN toggleLockedOnCreation([s2 EXCEPT !.lockedChannels = @ \ {name}], c)
        ELSE s2

registerListener(s, c) ==
    LET name == s.heap[c].name
        s1 == IF s.selectedChannelValue = NoChannel
              THEN set_selectedChannel(s, c) ELSE s
        s2 == [s1 EXCEPT !.toDisposeOnChannelDeletion[name] = @ \cup {c}]
    IN  IF name \in s2.lockedChannels /\ ~s2.heap[c].locked
        THEN toggleLockedOnCreation(s2, c) ELSE s2

onChannelAdded(s, c) ==
    registerListener(ManagerFire(s, "listOrSelection", [none |-> TRUE]), c)

\* Mutant of onChannelDelete: the selection is not moved off the deleted channel.
onChannelDeleteKeepsSelection(s, channelName) ==
    ManagerFire(s, "listOrSelection", [none |-> TRUE])

onChannelDelete(s, channelName) ==
    LET s1 == ManagerFire(s, "listOrSelection", [none |-> TRUE])
    IN  IF /\ s1.selectedChannelValue # NoChannel
           /\ s1.heap[s1.selectedChannelValue].name = channelName
        THEN set_selectedChannel(s1, First(getVisibleChannels(s1)))
        ELSE s1

\* Mutant of getChannel: the lookup of an existing channel is left out.
getChannelAlwaysNew(s, name) ==
    LET channel == Len(s.heap) + 1
        s1 == [s EXCEPT !.heap = Append(@, OutputChannel(name)),
                        !.channels = Append(@, channel)]
        s2 == IF s.managerDisposed THEN s1 ELSE onChannelAdded(s1, channel)
        s3 == ManagerFire(s2, "channelAdded", [channel |-> channel])
    IN  [s3 EXCEPT !.ret = channel]

getChannel(s, name) ==
    LET existing == Existing(s, name)
        channel == Len(s.heap) + 1
        s1 == [s EXCEPT !.heap = Append(@, OutputChannel(name)),
                        !.channels = Append(@, channel)]
        s2 == IF s.managerDisposed THEN s1 ELSE onChannelAdded(s1, channel)
        s3 == ManagerFire(s2, "channelAdded", [channel |-> channel])
    IN  IF existing # NoChannel THEN [s EXCEPT !.ret = existing]
        ELSE [s3 EXCEPT !.ret = channel]

\* Mutant of deleteChannel: the per-channel bundle is not disposed.
deleteChannelKeepsListeners(s, name) ==
    LET existing == Existing(s, name)
        s1 == [s EXCEPT !.channels = SelectSeq(@, LAMBDA c : c # existing)]
        s3 == IF s.managerDisposed THEN s1 ELSE onChannelDelete(s1, name)
    IN  IF existing = NoChannel THEN s
        ELSE ManagerFire(s3, "channelDelete", [channelName |-> name])

\* Mutant of deleteChannel: the early return for an unknown name is left out.
deleteChannelNoGuard(s, name) ==
    LET existing == Existing(s, name)
        bundle == s.toDisposeOnChannelDeletion[name]
        s1 == [s EXCEPT !.channels = SelectSeq(@, LAMBDA c : c # existing)]
        s2 == [s1 EXCEPT
                 !.heap = [c \in DOMAIN @ |->
                             IF c \in bundle THEN [@[c] EXCEPT !.disposed = TRUE]
                             ELSE @[c]],
                 !.toDisposeOnChannelDeletion[name] = {}]
        s3 == IF s.managerDisposed THEN s2 ELSE onChannelDelete(s2, name)
    IN  ManagerFire(s3, "channelDelete", [channelName |-> name])

deleteChannel(s, name) ==
    LET existing == Existing(s, name)
        bundle == s.toDisposeOnChannelDeletion[name]
        s1 == [s EXCEPT !.channels = SelectSeq(@, LAMBDA c : c # existing)]
        s2 == [s1 EXCEPT
                 !.heap = [c \in DOMAIN @ |->
                             IF c \in bundle THEN [@[c] EXCEPT !.disposed = TRUE]
                             ELSE @[c]],
                 !.toDisposeOnChannelDeletion[name] = {}]
        s3 == IF s.managerDisposed THEN s2 ELSE onChannelDelete(s2, name)
    IN  IF existing = NoChannel THEN s
        ELSE ManagerFire(s3, "channelDelete", [channelName |-> name])

\* OutputToolbarContribution.changeChannel; it returns nothing.
changeChannel(s, channelName) ==
    IF channelName # NONE
    THEN LET s1 == getChannel(s, channelName)
         IN  [set_selectedChannel(s1, s1.ret) EXCEPT !.ret = NoChannel]
    ELSE s

\* Mutant of toggleScrollLock: the argument is ignored for the selection.
toggleScrollLockOfSelection(s, channel) ==
    IF s.selectedChannelValue = NoChannel THEN s
    ELSE toggleLocked(s, s.selectedChannelValue)

\* toggleScrollLock(channel); channel = NoChannel is the call without argument
\* (or with undefined), for which the default parameter value is taken.  With
\* no channel the method leaves by its warning, or by the exception the
\* evaluation of the free identifier `name` raises where no global of that
\* name exists; the state is the same either way.
toggleScrollLock(s, channel) ==
    LET target == IF channel = NoChannel THEN s.selectedChannelValue ELSE channel
    IN  IF target = NoChannel THEN s ELSE toggleLocked(s, target)

\* What storageService.getData() resolves to: the value persisted at the call.
getData(stored) == stored

\* onStart() after its await, with the value the promise resolved to.
onStart(s, data) ==
    IF data.isArray
    THEN [s EXCEPT !.lockedChannels = @ \cup Range(data.value)]
    ELSE s

\* Mutant of onStop: the filter on isLocked is left out.
onStopAllChannels(s) ==
    [i \in DOMAIN s.channels |-> s.heap[s.channels[i]].name]

\* The array onStop() hands to storageService.setData().
onStop(s) ==
    LET locked == SelectSeq(getChannels(s), LAMBDA c : s.heap[c].locked)
    IN  [i \in DOMAIN locked |-> s.heap[locked[i]].name]

\* OutputChannelManager.dispose: the five emitters and the manager's two
\* subscriptions are disposed; the per-channel bundles are not in toDispose.
dispose(s) == [s EXCEPT !.managerDisposed = TRUE]

(***************************************************************************)
(* Actions                                                                 *)
(***************************************************************************)
\* The one/two scenario: 0 at the start, k after its first k calls, -1 off it.
ScenarioCalls ==
    << <<"getChannel", "one">>, <<"getChannel", "two">>,
       <<"deleteChannel", "one">>, <<"deleteChannel", "two">> >>

ScenarioStep(op, args) ==
    IF /\ scenario >= 0
       /\ scenario < Len(ScenarioCalls)
       /\ op = ScenarioCalls[scenario + 1][1]
       /\ args = <<ScenarioCalls[scenario + 1][2]>>
    THEN scenario + 1 ELSE -1

\* The state after a call that took the state at its start to s.
Install(s, op, args) ==
    /\ channels' = s.channels
    /\ heap' = s.heap
    /\ selectedChannelValue' = s.selectedChannelValue
    /\ toDisposeOnChannelDeletion' = s.toDisposeOnChannelDeletion
    /\ lockedChannels' = s.lockedChannels
    /\ managerDisposed' = s.managerDisposed
    /\ fired' = s.fired
    /\ call' = [op |-> op, args |-> args, ret |-> s.ret]
    /\ scenario' = ScenarioStep(op, args)

\* The state after construction of the manager (field initialisers and init()).
Fresh ==
    [channels |-> <<>>, heap |-> <<>>, selectedChannelValue |-> NoChannel,
     toDisposeOnChannelDeletion |-> [n \in Names |-> {}],
     lockedChannels |-> {}, managerDisposed |-> FALSE,
     maxChannelHistory |-> MaxHistory, fired |-> <<>>, ret |-> NoChannel]

Holds(s) ==
    /\ channels = s.channels
    /\ heap = s.heap
    /\ selectedChannelValue = s.selectedChannelValue
    /\ toDisposeOnChannelDeletion = s.toDisposeOnChannelDeletion
    /\ lockedChannels = s.lockedChannels
    /\ managerDisposed = s.managerDisposed
    /\ maxChannelHistory = s.maxChannelHistory
    /\ fired = s.fired
    /\ storage = [isArray |-> FALSE, value |-> <<>>]
    /\ onStartPc = "idle"
    /\ pending = [isArray |-> FALSE, value |-> <<>>]
    /\ returned = [alias |-> FALSE, copy |-> <<>>, of |-> NoChannel]
    /\ calls = <<>>

Init ==
    /\ Holds(Fresh)
    /\ call = [op |-> "init", args |-> <<>>, ret |-> NoChannel]
    /\ scenario = 0
    /\ texts = {}

\* A manager whose client has obtained the channel "one" and writes to it.
InitChannel ==
    /\ Holds(getChannel(Fresh, "one"))
    /\ call = [op |-> "getChannel", args |-> <<"one">>, ret |-> 1]
    /\ scenario = -1
    /\ texts \in Alphabets

Objects == DOMAIN heap

Entry(op, text) == [op |-> op, text |-> text, max |-> maxChannelHistory]

GetChannel(name) ==
    /\ Existing(State, name) # NoChannel \/ Len(heap) < MaxChannels
    /\ Install(getChannel(State, name), "getChannel", <<name>>)
    /\ UNCHANGED <<storage, onStartPc, pending, maxChannelHistory, returned, calls, texts>>

DeleteChannel(name) ==
    /\ Install(deleteChannel(State, name), "deleteChannel", <<name>>)
    /\ UNCHANGED <<storage, onStartPc, pending, maxChannelHistory, returned, calls, texts>>

SetVisibility(c, visible) ==
    /\ Install(setVisibility(State, c, visible), "setVisibility", <<c, visible>>)
    /\ UNCHANGED <<storage, onStartPc, pending, maxChannelHistory, returned, calls, texts>>

ToggleLocked(c) ==
    /\ Install(toggleLocked(State, c), "toggleLocked", <<c>>)
    /\ UNCHANGED <<storage, onStartPc, pending, maxChannelHistory, returned, calls, texts>>

ChangeChannel(channelName) ==
    /\ \/ Existing(State, channelName) # NoChannel
       \/ channelName = NONE
       \/ Len(heap) < MaxChannels
    /\ Install(changeChannel(State, channelName), "changeChannel", <<channelName>>)
    /\ UNCHANGED <<storage, onStartPc, pending, maxChannelHistory, returned, calls, texts>>

ChannelAppend(c, value) ==
    /\ Len(calls) < MaxCalls
    /\ Install(append(State, c, value), "append", <<c, value>>)
    /\ calls' = Append(calls, Entry("append", value))
    /\ UNCHANGED <<storage, onStartPc, pending, maxChannelHistory, returned, texts>>

ChannelAppendLine(c, line) ==
    /\ Len(calls) < MaxCalls
    /\ Install(appendLine(State, c, line), "appendLine", <<c, line>>)
    /\ calls' = Append(calls, Entry("appendLine", line))
    /\ UNCHANGED <<storage, onStartPc, pending, maxChannelHistory, returned, texts>>

ChannelClear(c) ==
    /\ Len(calls) < MaxCalls
    /\ Install(clear(State, c), "clear", <<c>>)
    /\ calls' = Append(calls, Entry("clear", ""))
    /\ UNCHANGED <<storage, onStartPc, pending, maxChannelHistory, returned, texts>>

\* The user changes the preference output.maxChannelHistory.
SetPreference(max) ==
    /\ Len(calls) < MaxCalls
    /\ max # maxChannelHistory
    /\ maxChannelHistory' = max
    /\ Install(State, "setPreference", <<max>>)
    /\ calls' = Append(calls, [op |-> "setPreference", text |-> "", max |-> max])
    /\ UNCHANGED <<storage, onStartPc, pending, returned, texts>>

ChannelGetLines(c) ==
    /\ Len(calls) < MaxCalls
    /\ returned' = getLines(State, c)
    /\ Install(State, "getLines", <<c>>)
    /\ calls' = Append(calls, Entry("getLines", ""))
    /\ UNCHANGED <<storage, onStartPc, pending, maxChannelHistory, texts>>

\* What the array handed out by the last getLines() holds now.
ReturnedValue ==
    IF returned.alias THEN heap[returned.of].lines ELSE returned.copy

\* The caller of getLines() pushes a text onto the array it was handed.
pushReturned(s, value) ==
    IF returned.alias
    THEN [s EXCEPT !.heap[returned.of].lines = Append(@, value)]
    ELSE s

MutateReturned(value) ==
    /\ Len(calls) < MaxCalls
    /\ returned.of # NoChannel
    /\ returned' = IF returned.alias THEN returned
                   ELSE [returned EXCEPT !.copy = Append(@, value)]
    /\ Install(pushReturned(State, value), "push", <<value>>)
    /\ calls' = Append(calls, Entry("push", value))
    /\ UNCHANGED <<storage, onStartPc, pending, maxChannelHistory, texts>>

ChannelDispose(c) ==
    /\ Install(disposeChannel(State, c), "disposeChannel", <<c>>)
    /\ UNCHANGED <<storage, onStartPc, pending, maxChannelHistory, returned, calls, texts>>

ToggleScrollLock(channel) ==
    /\ Install(toggleScrollLock(State, channel), "toggleScrollLock", <<channel>>)
    /\ UNCHANGED <<storage, onStartPc, pending, maxChannelHistory, returned, calls, texts>>

\* onStart() is called and runs up to its await.
OnStart ==
    /\ onStartPc = "idle"
    /\ onStartPc' = "loading"
    /\ pending' = getData(storage)
    /\ Install(State, "onStart", <<>>)
    /\ UNCHANGED <<storage, maxChannelHistory, returned, calls, texts>>

\* The promise of getData() is resolved and onStart() runs to its end.
OnStartLoaded ==
    /\ onStartPc = "loading"
    /\ onStartPc' = "done"
    /\ Install(onStart(State, pending), "onStartLoaded", <<>>)
    /\ UNCHANGED <<storage, pending, maxChannelHistory, returned, calls, texts>>

OnStop ==
    /\ storage' = [isArray |-> TRUE, value |-> onStop(State)]
    /\ Install(State, "onStop", <<>>)
    /\ UNCHANGED <<onStartPc, pending, maxChannelHistory, returned, calls, texts>>

Dispose ==
    /\ Install(dispose(State), "dispose", <<>>)
    /\ UNCHANGED <<storage, onStartPc, pending, maxChannelHistory, returned, calls, texts>>

\* What may be found persisted at the start: nothing, a value that is not an
\* array, or the names that were locked when an earlier session stopped.
StoredValues ==
    {[isArray |-> FALSE, value |-> <<>>],
     [isArray |-> FALSE, value |-> <<"one">>],
     [isArray |-> TRUE, value |-> <<"one">>],
     [isArray |-> TRUE, value |-> <<"two", "one">>]}

\* The manager after construction, in a session that finds a persisted value.
InitStored ==
    /\ channels = Fresh.channels
    /\ heap = Fresh.heap
    /\ selectedChannelValue = Fresh.selectedChannelValue
    /\ toDisposeOnChannelDeletion = Fresh.toDisposeOnChannelDeletion
    /\ lockedChannels = Fresh.lockedChannels
    /\ managerDisposed = Fresh.managerDisposed
    /\ maxChannelHistory = Fresh.maxChannelHistory
    /\ fired = Fresh.fired
    /\ storage \in StoredValues
    /\ onStartPc = "idle"
    /\ pending = [isArray |-> FALSE, value |-> <<>>]
    /\ returned = [alias |-> FALSE, copy |-> <<>>, of |-> NoChannel]
    /\ calls = <<>>
    /\ call = [op |-> "init", args |-> <<>>, ret |-> NoChannel]
    /\ scenario = 0
    /\ texts = {}

(***************************************************************************)
(* Specifications                                                          *)
(***************************************************************************)
\* Registry and selection: clients create, delete, show, hide and select
\* channels named in Names.
Next ==
    \/ \E name \in Names : GetChannel(name)
    \/ \E name \in Names : DeleteChannel(name)
    \/ \E c \in Objects, visible \in BOOLEAN : SetVisibility(c, visible)
    \/ \E channelName \in Names \cup {NONE} : ChangeChannel(channelName)

Spec == Init /\ [][Next]_vars

\* The same with scroll locks toggled, on the names in TwoNames.
NextLock ==
    \/ \E name \in TwoNames : GetChannel(name)
    \/ \E name \in TwoNames : DeleteChannel(name)
    \/ \E c \in Objects, visible \in BOOLEAN : SetVisibility(c, visible)
    \/ \E c \in Objects : ToggleLocked(c)
    \/ \E channelName \in TwoNames \cup {NONE} : ChangeChannel(channelName)

SpecLock == Init /\ [][NextLock]_vars

\* One channel written to through append, appendLine and clear.
NextChannel ==
    \/ \E c \in Objects, value \in texts : ChannelAppend(c, value)
    \/ \E c \in Objects, line \in texts : ChannelAppendLine(c, line)
    \/ \E c \in Objects : ChannelClear(c)
    \/ \E max \in 1..MaxHistory : SetPreference(max)

SpecChannel == InitChannel /\ [][NextChannel]_vars

\* The same with a client that keeps and changes the arrays getLines() returns.
NextAlias ==
    \/ NextChannel
    \/ \E c \in Objects : ChannelGetLines(c)
    \/ \E value \in texts : MutateReturned(value)

SpecAlias == InitChannel /\ [][NextAlias]_vars

\* Scroll locks toggled through the manager, for the selection or a channel.
NextScroll ==
    \/ \E name \in TwoNames : GetChannel(name)
    \/ \E name \in TwoNames : DeleteChannel(name)
    \/ \E c \in Objects, visible \in BOOLEAN : SetVisibility(c, visible)
    \/ \E channel \in Objects \cup {NoChannel} : ToggleScrollLock(channel)

SpecScroll == Init /\ [][NextScroll]_vars

\* A session: the application starts the manager, clients create, lock and
\* delete channels, and the application stops the manager.
NextSession ==
    \/ OnStart
    \/ OnStartLoaded
    \/ OnStop
    \/ \E name \in TwoNames : GetChannel(name)
    \/ \E name \in TwoNames : DeleteChannel(name)
    \/ \E c \in Objects : ToggleLocked(c)

SpecSession == InitStored /\ [][NextSession]_vars

\* A manager that is disposed while its channels are still in use.
NextDispose ==
    \/ Dispose
    \/ \E name \in TwoNames : GetChannel(name)
    \/ \E name \in TwoNames : DeleteChannel(name)
    \/ \E c \in Objects, visible \in BOOLEAN : SetVisibility(c, visible)
    \/ \E c \in Objects : ToggleLocked(c)

SpecDispose == Init /\ [][NextDispose]_vars

\* Channels created, deleted, shown and hidden, the selection left to the
\* manager.
NextVisible ==
    \/ \E name \in Names : GetChannel(name)
    \/ \E name \in Names : DeleteChannel(name)
    \/ \E c \in Objects, visible \in BOOLEAN : SetVisibility(c, visible)

SpecVisible == Init /\ [][NextVisible]_vars

\* A manager whose clients keep the channels they obtained and write "a".
InitWriter ==
    /\ Holds(Fresh)
    /\ call = [op |-> "init", args |-> <<>>, ret |-> NoChannel]
    /\ scenario = 0
    /\ texts = {"a"}

\* The channel objects that are not in the registry: the deleted ones.
Stale == Objects \ Range(channels)

\* The channel "one" is created, deleted and created again, while clients go
\* on showing, hiding, locking and writing the objects they hold.
NextDeleted ==
    \/ \E name \in {"one"} :
          /\ Existing(State, name) # NoChannel \/ Len(heap) < MaxRecreated
          /\ GetChannel(name)
    \/ \E name \in {"one"} : DeleteChannel(name)
    \/ \E c \in Objects, visible \in BOOLEAN : SetVisibility(c, visible)
    \/ \E c \in Objects : ToggleLocked(c)
    \/ \E c \in Stale, value \in texts :
          Len(calls) < MaxStaleWrites /\ ChannelAppend(c, value)
    \/ \E c \in Stale, line \in texts :
          Len(calls) < MaxStaleWrites /\ ChannelAppendLine(c, line)
    \/ \E c \in Stale : Len(calls) < MaxStaleWrites /\ ChannelClear(c)

SpecDeleted == InitWriter /\ [][NextDeleted]_vars

\* Clients that dispose channels they obtained, registered or deleted, and go
\* on showing, hiding and locking them.
NextHeld ==
    \/ \E name \in TwoNames :
          /\ Existing(State, name) # NoChannel \/ Len(heap) < MaxHeld
          /\ GetChannel(name)
    \/ \E name \in TwoNames : DeleteChannel(name)
    \/ \E c \in Objects, visible \in BOOLEAN : SetVisibility(c, visible)
    \/ \E c \in Objects : ToggleLocked(c)
    \/ \E c \in Objects : ChannelDispose(c)

SpecHeld == Init /\ [][NextHeld]_vars

\* Three names: clients show, hide and dispose the channels of the registry,
\* which are created and deleted meanwhile.
NextShown ==
    \/ \E name \in Names : GetChannel(name)
    \/ \E name \in Names : DeleteChannel(name)
    \/ \E c \in Range(channels), visible \in BOOLEAN : SetVisibility(c, visible)
    \/ \E c \in Range(channels) : ChannelDispose(c)

SpecShown == Init /\ [][NextShown]_vars

(***************************************************************************)
(* Properties                                                              *)
(***************************************************************************)
Registered == Range(channels)

\* The first channel of the registry after the step whose visible flag is set.
FirstVisibleAfter ==
    LET vis == {i \in DOMAIN channels' : heap'[channels'[i]].visible}
    IN  IF vis = {} THEN NoChannel
        ELSE channels'[CHOOSE i \in vis : \A j \in vis : i <= j]

Emitted(log, emitter) == {i \in DOMAIN log : log[i].emitter = emitter}

\* C1: after any sequence of getChannel, deleteChannel, setVisibility,
\* toggleLocked and toolbar selections the selection is none or a channel that
\* is in the registry; it is never a deleted channel.
C1_SelectionRegistered ==
    selectedChannelValue # NoChannel =>
        /\ selectedChannelValue \in Registered
        /\ ~heap[selectedChannelValue].disposed

\* A deleted channel was made visible again while another channel is selected.
C1_Witness ==
    /\ call.op = "setVisibility"
    /\ call.args[2]
    /\ call.args[1] \notin Registered
    /\ heap[call.args[1]].disposed
    /\ selectedChannelValue \in Registered

\* C2: deleteChannel(name) of the selected channel selects the first remaining
\* channel, in insertion order, whose visible flag is set, or none when no
\* remaining channel is visible; deleteChannel(name) of another channel leaves
\* the selection as it is.
C2_DeleteSelection ==
    [][\A name \in Names :
         LET existing == Existing(State, name)
         IN  (call'.op = "deleteChannel" /\ call'.args = <<name>>
                 /\ existing # NoChannel) =>
               /\ channels' = SelectSeq(channels, LAMBDA c : c # existing)
               /\ IF selectedChannelValue = existing
                  THEN selectedChannelValue' = FirstVisibleAfter
                  ELSE selectedChannelValue' = selectedChannelValue]_vars

\* The selected channel was deleted; of the two that remain the first is
\* hidden, and the second became the selection.
C2_Witness ==
    /\ call.op = "deleteChannel"
    /\ fired # <<>>
    /\ fired[1].selected \notin Registered
    /\ Len(channels) = 2
    /\ ~heap[channels[1]].visible
    /\ heap[channels[2]].visible
    /\ selectedChannelValue = channels[2]

\* C3: while a channel is not deleted, getChannel(name) returns the same
\* instance on every call, the registry holds one channel for the name, and
\* the added-event fires once on the call that creates the channel and not on
\* later calls.
C3_GetChannelIdempotent ==
    /\ [](\A i, j \in DOMAIN channels :
            heap[channels[i]].name = heap[channels[j]].name => i = j)
    /\ [][/\ \A c \in Registered :
                call'.op # "deleteChannel" => c \in Range(channels')
          /\ \A name \in Names :
               LET existing == Existing(State, name)
               IN  (call'.op = "getChannel" /\ call'.args = <<name>>) =>
                     /\ call'.ret \in Range(channels')
                     /\ heap'[call'.ret].name = name
                     /\ IF existing # NoChannel
                        THEN /\ call'.ret = existing
                             /\ heap' = heap
                             /\ channels' = channels
                             /\ Emitted(fired', "channelAdded") = {}
                        ELSE /\ call'.ret \notin Objects
                             /\ Cardinality(Emitted(fired', "channelAdded")) = 1
                             /\ \A i \in Emitted(fired', "channelAdded") :
                                  fired'[i].payload.channel = call'.ret]_vars

\* A getChannel call returned a channel that existed, with other channels
\* registered as well.
C3_Witness ==
    /\ call.op = "getChannel"
    /\ fired = <<>>
    /\ call.ret \in Registered
    /\ Len(channels) > 1

\* C4 as stated: at most one channel object is ever constructed per name.
C4_OneObjectPerName ==
    \A c, d \in Objects : heap[c].name = heap[d].name => c = d

\* C4, amended: getChannel(name) constructs a channel exactly when no channel
\* named name is in the registry, so also on the first request after
\* deleteChannel(name); the registry never holds two channels of one name, and
\* every older object of a name was deleted before the newer one was made.
C4_CreatedWhenAbsent ==
    /\ [](\A c, d \in Objects :
            (heap[c].name = heap[d].name /\ c < d) =>
               c \notin Registered /\ heap[c].disposed)
    /\ [][\A name \in Names :
            (call'.op = "getChannel" /\ call'.args = <<name>>) =>
               IF Existing(State, name) = NoChannel
               THEN /\ heap' = Append(heap, heap'[Len(heap')])
                    /\ heap'[Len(heap')] = OutputChannel(name)
                    /\ channels' = Append(channels, Len(heap'))
               ELSE Len(heap') = Len(heap)]_vars

\* getChannel(name) after deleteChannel(name) made a second object of the name.
C4_Witness ==
    /\ call.op = "getChannel"
    /\ \E c \in Objects :
          /\ c < call.ret
          /\ heap[c].name = heap[call.ret].name
          /\ call.ret \in Registered

\* C5: a getChannel call that creates a channel selects it when no channel is
\* selected and leaves the selection alone otherwise; creating "one" then
\* "two" selects "one", deleteChannel("one") then selects "two", and
\* deleteChannel("two") leaves no selection and an empty registry.
C5_SelectOnCreate ==
    /\ [](/\ scenario \in {1, 2} =>
               /\ selectedChannelValue # NoChannel
               /\ heap[selectedChannelValue].name = "one"
          /\ scenario = 3 =>
               /\ selectedChannelValue # NoChannel
               /\ heap[selectedChannelValue].name = "two"
          /\ scenario = 4 =>
               /\ selectedChannelValue = NoChannel
               /\ channels = <<>>)
    /\ [][(call'.op = "getChannel" /\ Len(heap') > Len(heap)) =>
            IF selectedChannelValue = NoChannel
            THEN selectedChannelValue' = call'.ret
            ELSE selectedChannelValue' = selectedChannelValue]_vars

\* The scenario ran to its end.
C5_Witness == scenario = 4

\* C6 as stated: whenever a listener of a manager event runs, the selection it
\* sees is none or a channel of the registry it sees.
C6_ListenersSeeConsistentState ==
    \A i \in DOMAIN fired :
        \/ fired[i].selected = NoChannel
        \/ fired[i].selected \in Range(fired[i].channels)

\* C10: deleteChannel(name) for a name that is not in the registry changes no
\* state and fires no event.
C10_DeleteUnknownIsNoOp ==
    [][\A name \in Names :
         (call'.op = "deleteChannel" /\ call'.args = <<name>>
             /\ Existing(State, name) = NoChannel) =>
           /\ fired' = <<>>
           /\ UNCHANGED <<channels, heap, selectedChannelValue,
                          toDisposeOnChannelDeletion, lockedChannels,
                          managerDisposed, storage, pending,
                          maxChannelHistory>>]_vars

\* deleteChannel was called for a name whose channel was deleted before, while
\* a locked and a hidden channel are around.
C10_Witness ==
    /\ call.op = "deleteChannel"
    /\ fired = <<>>
    /\ selectedChannelValue # NoChannel
    /\ \E c \in Objects : heap[c].name = call.args[1] /\ heap[c].disposed
    /\ \E c \in Objects : heap[c].locked
    /\ \E c \in Objects : ~heap[c].visible

(***************************************************************************)
(* Properties of the scroll lock and of the manager's life cycle           *)
(***************************************************************************)
LockEvents(log) == Emitted(log, "lockedChange") \cup Emitted(log, "channelLocked")

\* C11: toggleScrollLock() without argument flips the lock flag of the selected
\* channel and of no other channel; toggleScrollLock(c) flips the lock flag of
\* c and of no other channel, whatever is selected; without argument and
\* without selection it changes no lock flag, leaves registry and selection
\* as they are and fires no lock-change event.
C11_ToggleScrollLock ==
    [][\A channel \in Objects \cup {NoChannel} :
         (call'.op = "toggleScrollLock" /\ call'.args = <<channel>>) =>
           /\ UNCHANGED <<channels, selectedChannelValue>>
           /\ channel # NoChannel =>
                 heap' = [heap EXCEPT ![channel].locked = ~@]
           /\ (channel = NoChannel /\ selectedChannelValue # NoChannel) =>
                 heap' = [heap EXCEPT ![selectedChannelValue].locked = ~@]
           /\ (channel = NoChannel /\ selectedChannelValue = NoChannel) =>
                 /\ heap' = heap
                 /\ LockEvents(fired') = {}]_vars

\* toggleScrollLock(c) locked a channel that is not the selected one, and the
\* selected channel is not locked.
C11_Witness ==
    /\ call.op = "toggleScrollLock"
    /\ call.args[1] # NoChannel
    /\ selectedChannelValue # NoChannel
    /\ call.args[1] # selectedChannelValue
    /\ heap[call.args[1]].locked
    /\ ~heap[selectedChannelValue].locked

\* The names of the persisted list that onStart() read, once it was called.
PersistedNames ==
    IF onStartPc # "idle" /\ pending.isArray THEN Range(pending.value) ELSE {}

\* C12 as stated: a getChannel call made after onStart() was called, and that
\* creates the first channel of a name in the persisted list, returns the
\* channel locked, whether or not the load of onStart() has completed.
C12_LockRestoredOnFirstCreation ==
    [][\A name \in PersistedNames :
         (/\ call'.op = "getChannel"
          /\ call'.args = <<name>>
          /\ \A c \in Objects : heap[c].name # name) =>
            heap'[call'.ret].locked]_vars

\* The place in the registry of the channel of a name.
Place(name) == CHOOSE k \in DOMAIN channels : heap[channels[k]].name = name

\* C13: after onStop() the persisted list is the names of the channels that
\* are in the registry and locked at that moment, in the order of the
\* registry; it replaces what was persisted before, so that a name persisted
\* before whose channel is not in the registry is not in the list.
C13_OnStopPersistsLocked ==
    [][call'.op = "onStop" =>
         LET v == storage'.value
         IN  /\ storage'.isArray
             /\ Len(v) = Cardinality({c \in Registered : heap[c].locked})
             /\ \A i \in DOMAIN v :
                   \E c \in Registered : heap[c].name = v[i] /\ heap[c].locked
             /\ \A i, j \in DOMAIN v : i < j => Place(v[i]) < Place(v[j])
             /\ \A name \in Range(storage.value) :
                   (\A c \in Registered : heap[c].name # name) =>
                      name \notin Range(v)
             /\ UNCHANGED <<channels, heap, lockedChannels>>]_vars

\* onStop() persisted "two" alone in a session that had loaded "one": the
\* channel "one" was deleted while locked and is not in the registry.
C13_Witness ==
    /\ call.op = "onStop"
    /\ "one" \in PersistedNames
    /\ storage = [isArray |-> TRUE, value |-> <<"two">>]
    /\ \E c \in Objects \ Registered : heap[c].name = "one" /\ heap[c].locked
    /\ \A c \in Registered : heap[c].name # "one"

\* C14 as stated: after manager.dispose() a setVisibility or toggleLocked call
\* on a channel runs no listener of the manager, so that the manager's
\* selection is as it was before the call.
C14_DisposeReleasesBundles ==
    [][(managerDisposed /\ call'.op \in {"setVisibility", "toggleLocked"}) =>
          selectedChannelValue' = selectedChannelValue]_vars

\* The notifications in log that come from the manager's emitters.
ManagerEvents(log) ==
    {i \in DOMAIN log :
        log[i].emitter \in {"channelAdded", "channelDelete", "selectedChannel",
                            "listOrSelection", "channelLocked"}}

\* C15: a setVisibility, toggleLocked, append, appendLine or clear call on a
\* channel object that deleteChannel removed changes neither the selection
\* nor the registry and fires no event of the manager, also when a new
\* channel of the same name is in the registry.
C15_DeletedChannelDetached ==
    [][\A c \in Stale :
         (/\ call'.op \in {"setVisibility", "toggleLocked",
                           "append", "appendLine", "clear"}
          /\ call'.args[1] = c) =>
            /\ UNCHANGED <<channels, selectedChannelValue>>
            /\ ManagerEvents(fired') = {}]_vars

\* A deleted channel that was locked and written to after its deletion is
\* shown, while a new channel of its name is registered, hidden and unlocked.
C15_Witness ==
    /\ call.op = "setVisibility"
    /\ call.args[2]
    /\ call.args[1] \in Stale
    /\ heap[call.args[1]].locked
    /\ heap[call.args[1]].lines # <<>>
    /\ \E d \in Registered :
          /\ heap[d].name = heap[call.args[1]].name
          /\ ~heap[d].visible
          /\ ~heap[d].locked
    /\ selectedChannelValue = NoChannel

\* C16 as stated: every toggleLocked() call on a channel, whatever became of
\* the channel, fires one lock-change event on it that carries the new value,
\* and for a channel in the registry it is re-broadcast as one lock-change
\* event of the manager.
C16_EveryChannelNotifies ==
    [][\A c \in Objects :
         (call'.op = "toggleLocked" /\ call'.args = <<c>>) =>
           /\ heap'[c].locked = ~heap[c].locked
           /\ Cardinality(Emitted(fired', "lockedChange")) = 1
           /\ c \in Registered =>
                 Cardinality(Emitted(fired', "channelLocked")) = 1]_vars

\* C16, amended: two consecutive toggleLocked() calls on a channel leave its
\* lock flag as it was before the first.  On a channel that was neither
\* deleted nor disposed they fire two lock-change events on the channel, the
\* first with the negated and the second with the original value, and if
\* the channel is in the registry each is re-broadcast as one lock-change
\* event of the manager that carries the channel.  On a deleted or disposed
\* channel no listener is left and no event of the manager follows.
C16_ToggleLockedTwice ==
    [][\A c \in Objects :
         (call'.op = "toggleLocked" /\ call'.args = <<c>>) =>
           LET before == Emitted(fired, "lockedChange")
               onChannel == Emitted(fired', "lockedChange")
               onManager == Emitted(fired', "channelLocked")
           IN  /\ heap' = [heap EXCEPT ![c].locked = ~@]
               /\ ~heap[c].disposed =>
                     /\ Cardinality(onChannel) = 1
                     /\ \A i \in onChannel :
                           fired'[i].payload =
                              [channel |-> c, scrollLock |-> ~heap[c].locked]
               /\ heap[c].disposed => onChannel = {}
               /\ IF c \in Registered /\ ~heap[c].disposed
                  THEN /\ Cardinality(onManager) = 1
                       /\ \A i \in onManager : fired'[i].payload.channel = c
                  ELSE onManager = {}
               /\ (call.op = "toggleLocked" /\ call.args = <<c>>) =>
                     /\ ~heap[c].disposed =>
                           Cardinality(before) + Cardinality(onChannel) = 2
                     /\ \A i \in before :
                           /\ fired[i].payload.scrollLock = heap[c].locked
                           /\ heap'[c].locked = ~fired[i].payload.scrollLock
                           /\ \A j \in onChannel :
                                 fired'[j].payload.scrollLock
                                    = ~fired[i].payload.scrollLock]_vars

\* toggleLocked() returned a registered channel to unlocked: its second call,
\* re-broadcast by the manager, while another registered channel, which its
\* client has disposed, stays locked.
C16_Witness ==
    /\ call.op = "toggleLocked"
    /\ call.args[1] \in Registered
    /\ ~heap[call.args[1]].locked
    /\ ~heap[call.args[1]].disposed
    /\ Cardinality(Emitted(fired, "channelLocked")) = 1
    /\ Cardinality(Emitted(fired, "lockedChange")) = 1
    /\ \E d \in Registered : heap[d].locked /\ heap[d].disposed

\* C17 as stated: for every channel c in the registry, setVisibility(true) on
\* c selects c; setVisibility(false) on the selected c selects the first
\* channel of the registry whose visible flag is set, or none if there is
\* none; setVisibility(false) on another c leaves the selection as it is.
C17_EveryRegisteredChannel ==
    [][\A c \in Registered, visible \in BOOLEAN :
         (call'.op = "setVisibility" /\ call'.args = <<c, visible>>) =>
           IF visible THEN selectedChannelValue' = c
           ELSE IF selectedChannelValue = c
                THEN selectedChannelValue' = FirstVisibleAfter
                ELSE selectedChannelValue' = selectedChannelValue]_vars

\* C17, amended: for a channel c in the registry whose dispose() was not
\* called, setVisibility(true) on c selects c, whatever was selected and
\* whether or not the flag of c changed; setVisibility(false) on the selected
\* c selects the first channel of the registry whose visible flag is set, or
\* none if there is none; setVisibility(false) on another c leaves the
\* selection as it is.  On a registered channel that its client disposed,
\* setVisibility sets the flag and leaves the selection as it is.
C17_VisibilitySelection ==
    [][\A c \in Registered, visible \in BOOLEAN :
         (call'.op = "setVisibility" /\ call'.args = <<c, visible>>) =>
           /\ heap' = [heap EXCEPT ![c].visible = visible]
           /\ channels' = channels
           /\ IF heap[c].disposed
              THEN selectedChannelValue' = selectedChannelValue
              ELSE IF visible THEN selectedChannelValue' = c
              ELSE IF selectedChannelValue = c
                   THEN selectedChannelValue' = FirstVisibleAfter
                   ELSE selectedChannelValue' = selectedChannelValue]_vars

\* The first of three channels was selected and has been hidden; the second
\* and the third are both visible, and the second became the selection.  The
\* third was disposed by its client, which does not matter to the fallback.
C17_Witness ==
    /\ call.op = "setVisibility"
    /\ ~call.args[2]
    /\ Len(channels) = 3
    /\ call.args[1] = channels[1]
    /\ ~heap[channels[1]].disposed
    /\ heap[channels[2]].visible
    /\ heap[channels[3]].visible
    /\ heap[channels[3]].disposed
    /\ selectedChannelValue = channels[2]
    /\ Emitted(fired, "selectedChannel") # {}

\* C18: after any sequence of getChannel, deleteChannel and setVisibility
\* calls the selected channel, if there is one, is visible, and there is no
\* selection exactly when no channel of the registry is visible.
C18_SelectionVisible ==
    /\ selectedChannelValue # NoChannel => heap[selectedChannelValue].visible
    /\ selectedChannelValue = NoChannel
          <=> \A c \in Registered : ~heap[c].visible

\* Two registered channels are hidden, one of them by the last call, and
\* nothing is selected.
C18_Witness ==
    /\ call.op = "setVisibility"
    /\ call.args[1] \in Registered
    /\ Len(channels) >= 2
    /\ \A c \in Registered : ~heap[c].visible
    /\ selectedChannelValue = NoChannel

\* What the toolbar's channel selector lists: getVisibleChannels().
VisibleChannels == getVisibleChannels(State)

\* C19 as stated: a call that changes the visible channels or the selection
\* fires the list-or-selection event at least once after its last change to
\* them, so that a listener that reads them on this event alone has their
\* current values.
C19_SelectorUpToDate ==
    [][(VisibleChannels' # VisibleChannels
          \/ selectedChannelValue' # selectedChannelValue) =>
         \E i \in Emitted(fired', "listOrSelection") :
            /\ fired'[i].selected = selectedChannelValue'
            /\ fired'[i].visible = VisibleChannels']_vars

\* C20: the manager's set of locked names only grows: onStart adds the loaded
\* names, and toggleLocked, deleteChannel and onStop remove none.  Every
\* getChannel call that creates a channel of a recorded name returns it
\* locked and fires one lock-change event of the manager for it, also when
\* an earlier channel of the name was unlocked and deleted.
C20_RecordedNamesStayLocked ==
    [][/\ lockedChannels \subseteq lockedChannels'
       /\ call'.op # "onStartLoaded" => lockedChannels' = lockedChannels
       /\ call'.op = "onStartLoaded" =>
             lockedChannels' = lockedChannels \cup PersistedNames
       /\ \A name \in TwoNames :
             (/\ call'.op = "getChannel"
              /\ call'.args = <<name>>
              /\ Len(heap') > Len(heap)) =>
                LET onManager == Emitted(fired', "channelLocked")
                IN  IF name \in lockedChannels
                    THEN /\ heap'[call'.ret].locked
                         /\ Cardinality(onManager) = 1
                         /\ \A i \in onManager :
                               fired'[i].payload.channel = call'.ret
                    ELSE /\ ~heap'[call'.ret].locked
                         /\ onManager = {}]_vars

\* getChannel created a channel of a recorded name again and locked it; the
\* earlier channel of the name was unlocked before it was deleted.
C20_Witness ==
    /\ call.op = "getChannel"
    /\ call.args[1] \in lockedChannels
    /\ call.ret \in Registered
    /\ heap[call.ret].locked
    /\ Cardinality(Emitted(fired, "channelLocked")) = 1
    /\ \E c \in Objects \ Registered :
          /\ c < call.ret
          /\ heap[c].name = call.args[1]
          /\ ~heap[c].locked

(***************************************************************************)
(* Properties of one channel, stated on the calls made on it               *)
(***************************************************************************)
\* The calls since the channel was created or last cleared.
SinceClear(h) ==
    LET cleared == {i \in DOMAIN h : h[i].op = "clear"}
    IN  IF cleared = {} THEN h
        ELSE SubSeq(h, (CHOOSE i \in cleared : \A j \in cleared : j <= i) + 1, Len(h))

Writes(h) == SelectSeq(h, LAMBDA e : e.op \in {"append", "appendLine"})

RECURSIVE JoinTexts(_, _, _)
JoinTexts(w, i, j) == IF i > j THEN "" ELSE w[i].text \o JoinTexts(w, i + 1, j)

\* The positions of the appendLine calls in w, in call order.
LineEnds(w) ==
    SelectSeq([i \in 1..Len(w) |-> i], LAMBDA i : w[i].op = "appendLine")

\* The lines completed by the writes w: each is the texts appended since the
\* previous appendLine, followed by the text of its appendLine.
CompletedLines(w) ==
    LET ends == LineEnds(w)
    IN  [k \in 1..Len(ends) |->
           JoinTexts(w, IF k = 1 THEN 1 ELSE ends[k - 1] + 1, ends[k])]

\* The texts appended after the last appendLine, joined, if there are any.
TrailingLine(w) ==
    LET ends == LineEnds(w)
        last == IF ends = <<>> THEN 0 ELSE ends[Len(ends)]
    IN  IF last < Len(w) THEN <<JoinTexts(w, last + 1, Len(w))>> ELSE <<>>

\* How many lines are kept after the k-th appendLine of w, each reading the
\* preference as it was at its call.
RECURSIVE Retained(_, _)
Retained(w, k) ==
    IF k = 0 THEN 0
    ELSE Min(w[LineEnds(w)[k]].max, Retained(w, k - 1) + 1)

LastN(seq, n) == SubSeq(seq, Len(seq) - n + 1, Len(seq))

\* What a getLines() call on channel c returns in this state.
GetLinesValue(c) ==
    LET r == getLines(State, c)
    IN  IF r.alias THEN heap[c].lines ELSE r.copy

AppendLines(ts, max) ==
    [i \in DOMAIN ts |-> [op |-> "appendLine", text |-> ts[i], max |-> max]]

\* C7: after every appendLine call, with M the preference read at that call,
\* the channel holds at most M completed lines, and they are the most recently
\* completed lines in their order; with M = 3, appendLine of a, b, c, d leaves
\* [b, c, d].
C7_BoundedHistory ==
    \A c \in Objects :
        LET w == Writes(SinceClear(calls))
            done == CompletedLines(w)
        IN  /\ heap[c].lines = LastN(done, Retained(w, Len(done)))
            /\ call.op = "appendLine" =>
                  /\ Len(heap[c].lines) <= maxChannelHistory
                  /\ heap[c].lines[Len(heap[c].lines)] = done[Len(done)]
            /\ w = AppendLines(<<"a", "b", "c", "d">>, 3) =>
                  /\ heap[c].lines = <<"b", "c", "d">>
                  /\ GetLinesValue(c) = <<"b", "c", "d">>

\* appendLine of a, b, c, d was called with a maximum of 3.
C7_Witness ==
    /\ Writes(SinceClear(calls)) = AppendLines(<<"a", "b", "c", "d">>, 3)
    /\ call.op = "appendLine"
    /\ Len(heap[1].lines) = 3

\* No appendLine call on the fresh channel completed more lines than the
\* preference allowed at that call, and the channel was not cleared.
NothingEvicted ==
    LET w == Writes(calls)
        ends == LineEnds(w)
    IN  /\ \A i \in DOMAIN calls : calls[i].op # "clear"
        /\ \A k \in DOMAIN ends : k <= w[ends[k]].max

\* C8: for append and appendLine calls on a fresh channel that complete no
\* more lines than maxChannelHistory, getLines() is the completed lines in
\* call order, followed by the joined texts appended after the last
\* appendLine as one element (also when those texts are empty);
\* append("Hel"), append("lo"), appendLine("!") gives ["Hello!"].
C8_GetLinesIsCompletedLines ==
    \A c \in Objects :
        LET w == Writes(calls)
        IN  NothingEvicted =>
              /\ GetLinesValue(c) = CompletedLines(w) \o TrailingLine(w)
              /\ (w # <<>> /\ w[Len(w)].op = "append") =>
                    Len(GetLinesValue(c)) = Len(LineEnds(w)) + 1
              /\ [i \in DOMAIN w |-> <<w[i].op, w[i].text>>]
                    = << <<"append", "Hel">>, <<"append", "lo">>,
                         <<"appendLine", "!">> >>
                  => GetLinesValue(c) = <<"Hello!">>

\* A line was completed from two appends and an appendLine, and an empty text
\* was appended after it.
C8_Witness ==
    /\ NothingEvicted
    /\ Len(Writes(calls)) = 4
    /\ [i \in 1..3 |-> Writes(calls)[i].op] = <<"append", "append", "appendLine">>
    /\ Writes(calls)[4] = Entry("append", "")
    /\ Len(GetLinesValue(1)) = 2

\* C9 as stated: pushing to the array getLines() returned does not change the
\* channel's lines, and a later append, appendLine or clear does not change an
\* array returned earlier.
C9_GetLinesIsSnapshot ==
    [][/\ call'.op = "push" =>
             heap'[returned.of].lines = heap[returned.of].lines
       /\ (returned.of # NoChannel
             /\ call'.op \in {"append", "appendLine", "clear"}) =>
             ReturnedValue' = ReturnedValue]_vars

====
